---- MODULE Spec2Model ----
(***************************************************************************)
(* Model of portrait's completion driver                                   *)
(* (framework/src/trait_item_map.rs: complete, subtract_items,             *)
(* TraitItemMap, ImplItemMap, Generator) and of the argument slot          *)
(* Once<T> (codegen/src/util.rs).                                          *)
(*                                                                         *)
(* One run of `complete` is a walk  clone -> subtract -> minus ->          *)
(* generate -> done.  A HashMap iterates in an unspecified order, so each  *)
(* loop step picks any key the iterator has not yielded yet.  The          *)
(* generator is a collaborator: each call either fails with an error of    *)
(* its choosing or returns an impl item of the requested kind under an     *)
(* identifier of its choosing.                                             *)
(***************************************************************************)
EXTENDS Integers, Sequences, FiniteSets

VARIABLES trait_items, impl_block, pc, bucket, todo, items, impl_items,
          output, calls, result, once_slot, once_log

vars == <<trait_items, impl_block, pc, bucket, todo, items, impl_items,
          output, calls, result, once_slot, once_log>>

completeVars == <<trait_items, impl_block, pc, bucket, todo, items,
                  impl_items, output, calls, result>>

----------------------------------------------------------------------------
(* Bounds of the model *)

MaxTrait == 2

MaxImpl == 2

MaxSets == 3

Idents == {"x", "y"}

Metas == {"impl Tr for S"}

GenPayloads == {"E1", "E2"}

OnceValues == {"a", "b"}

SpanPoints == {1, 2}

----------------------------------------------------------------------------
(* syn items: the three indexed kinds, and every other kind (macro          *)
(* invocations, verbatim tokens), which carries no identifier.              *)

Kinds == {"Const", "Method", "Type"}

NoIdent == "_"

Item(kind, ident) == [kind |-> kind, ident |-> ident]

OtherItem == Item("Other", NoIdent)

ItemValues == {Item(k, id) : k \in Kinds, id \in Idents} \cup {OtherItem}

SeqsUpTo(S, n) == UNION {[1..k -> S] : k \in 0..n}

ItemImpl(meta, its) == [meta |-> meta, items |-> its]

NoBlock == ItemImpl("", <<>>)

----------------------------------------------------------------------------
(* HashMap<syn::Ident, &Item>: a function from the keys to the position of  *)
(* the referenced item in its sequence.                                     *)

EmptyMap == [k \in {} |-> 0]

Keys(m) == DOMAIN m

MapInsert(m, k, v) == [x \in (DOMAIN m) \cup {k} |-> IF x = k THEN v ELSE m[x]]

MapRemove(m, k) == [x \in (DOMAIN m) \ {k} |-> m[x]]

Buckets == {"consts", "methods", "types"}

KindOf == [consts |-> "Const", methods |-> "Method", types |-> "Type"]

BucketOfKind == [Const |-> "consts", Method |-> "methods", Type |-> "types"]

DefaultMap == [consts |-> EmptyMap, methods |-> EmptyMap, types |-> EmptyMap]

(* Variant: an insertion that keeps an existing entry (entry().or_insert). *)
IndexInsertFirstWins(map, item, ref) ==
    IF item.kind \in Kinds
    THEN LET b == BucketOfKind[item.kind]
         IN IF item.ident \in Keys(map[b])
            THEN map
            ELSE [map EXCEPT ![b] = MapInsert(map[b], item.ident, ref)]
    ELSE map

(* One iteration of the indexing loop: insert into the bucket of the item's *)
(* kind (overwriting an earlier entry of the same key), ignore other kinds. *)
IndexInsert(map, item, ref) ==
    IF item.kind \in Kinds
    THEN LET b == BucketOfKind[item.kind]
         IN [map EXCEPT ![b] = MapInsert(map[b], item.ident, ref)]
    ELSE map

RECURSIVE IndexFrom(_, _, _)
IndexFrom(map, its, i) ==
    IF i > Len(its) THEN map
    ELSE IndexFrom(IndexInsert(map, its[i], i), its, i + 1)

TraitItemMapNew(its) == IndexFrom(DefaultMap, its, 1)

ImplItemMapNew(block) == IndexFrom(DefaultMap, block.items, 1)

----------------------------------------------------------------------------
(* syn::Error: a message and the span it is reported at.  The message is    *)
(* kept as its pieces, so that what it names can be read back.              *)

Span(node, index) == [node |-> node, index |-> index]

SynError(message, span) == [message |-> message, span |-> span]

NoError == SynError(<<>>, Span("none", 0))

KindWord == [consts |-> "constant", methods |-> "function", types |-> "type"]

(* Error::new_spanned(impl_item, "no associated <kind> called {ident} in    *)
(* trait"): the text is a plain string literal, nothing is interpolated.    *)
MatchError(b, ref) ==
    SynError(<<"no associated", KindWord[b], "called", "{ident}", "in trait">>,
             Span("impl_item", ref))

MatchMessages == {MatchError(b, 0).message : b \in Buckets}

GenErrors == {SynError(<<"generator", p>>, Span("generator", 0)) : p \in GenPayloads}

GenerateOp == [consts |-> "generate_const", methods |-> "generate_method",
               types |-> "generate_type"]

Pending == [tag |-> "Pending", block |-> NoBlock, error |-> NoError]

Ok(block) == [tag |-> "Ok", block |-> block, error |-> NoError]

Err(error) == [tag |-> "Err", block |-> NoBlock, error |-> error]

Call(op, arg, tag, item, error) ==
    [op |-> op, arg |-> arg, tag |-> tag, item |-> item, error |-> error]

----------------------------------------------------------------------------
(* Once<T>(Option<(Span, T)>): a span is the interval of source positions   *)
(* it covers.                                                               *)

PointSpan(p) == <<p, p>>

Spans == {PointSpan(p) : p \in SpanPoints}

Min2(a, b) == IF a <= b THEN a ELSE b

Max2(a, b) == IF a >= b THEN a ELSE b

(* Span::join: Some(the covering span), or None where joining is not       *)
(* supported (stable toolchains, spans of different files).                 *)
JoinResults(a, b) ==
    {[some |-> TRUE, span |-> <<Min2(a[1], b[1]), Max2(a[2], b[2])>>],
     [some |-> FALSE, span |-> <<0, 0>>]}

UnwrapOr(opt, default) == IF opt.some THEN opt.span ELSE default

NoneSlot == [some |-> FALSE, span |-> <<0, 0>>, value |-> ""]

SomeSlot(span, value) == [some |-> TRUE, span |-> span, value |-> value]

(* Once::default() *)
OnceDefault == NoneSlot

(* Variant: a slot that is emptied when it was already set. *)
OnceReplaceTake(slot, span, value) ==
    IF slot.some THEN NoneSlot ELSE SomeSlot(span, value)

(* self.0.replace((span, value)): the slot afterwards *)
OnceReplace(slot, span, value) == SomeSlot(span, value)

TwiceMessage == <<"Argument cannot be set twice">>

----------------------------------------------------------------------------
(* Pieces of complete, subtract_items and minus *)

(* Variant: a clone that keeps the header and loses the items. *)
CloneHeaderOnly(block) == [block EXCEPT !.items = <<>>]

(* let mut output = impl_block.clone(); *)
CloneBlock(block) == block

(* Variant: the method loop of minus placed first. *)
MinusOrderMethodsFirst == <<"methods", "consts", "types">>

(* The three loops of minus, in source order. *)
MinusOrder == <<"consts", "methods", "types">>

(* Variant: the error replaced by a new one at the same span. *)
TryErrRewrapped(error) == Err(SynError(<<"generation failed">>, error.span))

(* The `?` operator on an Err value: return it to the caller as it is. *)
TryErr(error) == Err(error)

(* Variant: a lookup in place of the removal. *)
MinusRemoveNothing(map, b, ident) == map

(* self.<bucket>.remove(ident) *)
MinusRemove(map, b, ident) == [map EXCEPT ![b] = MapRemove(map[b], ident)]

(* Variant: a key counts as present when any kind declares it. *)
MinusMissingAnyKind(map, b, ident) ==
    \A c \in DOMAIN map : ident \notin Keys(map[c])

(* .is_none() of the removal: the trait bucket of that kind had no such key *)
MinusMissing(map, b, ident) == ident \notin Keys(map[b])

(* Variant: the method loop of complete placed first. *)
GenerateOrderMethodsFirst == <<"methods", "consts", "types">>

(* The three loops of complete, in source order. *)
GenerateOrder == <<"consts", "methods", "types">>

(* Variant: the generated item inserted in front. *)
PushItemFront(block, item) == [block EXCEPT !.items = <<item>> \o @]

(* output.items.push(syn::ImplItem::<Kind>(impl_item)) *)
PushItem(block, item) == [block EXCEPT !.items = Append(@, item)]

----------------------------------------------------------------------------
(* complete(trait_items, impl_block, generator) *)

Init ==
    /\ trait_items \in SeqsUpTo(ItemValues, MaxTrait)
    /\ impl_block \in {ItemImpl(m, its) : m \in Metas, its \in SeqsUpTo(ItemValues, MaxImpl)}
    /\ pc = "clone"
    /\ bucket = 1
    /\ todo = {}
    /\ items = DefaultMap
    /\ impl_items = DefaultMap
    /\ output = NoBlock
    /\ calls = <<>>
    /\ result = Pending
    /\ once_slot = OnceDefault
    /\ once_log = <<>>

Clone ==
    /\ pc = "clone"
    /\ output' = CloneBlock(impl_block)
    /\ pc' = "subtract"
    /\ UNCHANGED <<trait_items, impl_block, bucket, todo, items, impl_items,
                   calls, result, once_slot, once_log>>

(* subtract_items: build both indexes, then enter minus's first loop. *)
SubtractItems ==
    /\ pc = "subtract"
    /\ items' = TraitItemMapNew(trait_items)
    /\ impl_items' = ImplItemMapNew(impl_block)
    /\ bucket' = 1
    /\ todo' = Keys(impl_items'[MinusOrder[1]])
    /\ pc' = "minus"
    /\ UNCHANGED <<trait_items, impl_block, output, calls, result,
                   once_slot, once_log>>

(* One iteration of one of minus's three loops. *)
MinusStep ==
    /\ pc = "minus"
    /\ \E ident \in todo :
         LET b == MinusOrder[bucket]
         IN IF MinusMissing(items, b, ident)
            THEN /\ result' = TryErr(MatchError(b, impl_items[b][ident]))
                 /\ pc' = "done"
                 /\ output' = NoBlock
                 /\ todo' = {}
                 /\ UNCHANGED items
            ELSE /\ items' = MinusRemove(items, b, ident)
                 /\ todo' = todo \ {ident}
                 /\ UNCHANGED <<pc, output, result>>
    /\ UNCHANGED <<trait_items, impl_block, bucket, impl_items, calls,
                   once_slot, once_log>>

(* A loop of minus is exhausted: on to the next kind. *)
MinusNextBucket ==
    /\ pc = "minus"
    /\ todo = {}
    /\ bucket < Len(MinusOrder)
    /\ bucket' = bucket + 1
    /\ todo' = Keys(impl_items[MinusOrder[bucket + 1]])
    /\ UNCHANGED <<trait_items, impl_block, pc, items, impl_items, output,
                   calls, result, once_slot, once_log>>

(* minus returns Ok(()), subtract_items returns the residual map, and       *)
(* complete enters its first generation loop.                               *)
MinusOk ==
    /\ pc = "minus"
    /\ todo = {}
    /\ bucket = Len(MinusOrder)
    /\ pc' = "generate"
    /\ bucket' = 1
    /\ todo' = Keys(items[GenerateOrder[1]])
    /\ UNCHANGED <<trait_items, impl_block, items, impl_items, output,
                   calls, result, once_slot, once_log>>

(* One iteration of one of complete's three loops: the generator is called  *)
(* with the residual trait item; `?` returns its error at once.             *)
GenerateStep ==
    /\ pc = "generate"
    /\ \E ident \in todo :
         LET b == GenerateOrder[bucket]
             arg == items[b][ident]
         IN \/ \E e \in GenErrors :
                 /\ calls' = Append(calls, Call(GenerateOp[b], arg, "Err", OtherItem, e))
                 /\ result' = TryErr(e)
                 /\ output' = NoBlock
                 /\ pc' = "done"
                 /\ todo' = {}
            \/ \E id \in Idents :
                 LET impl_item == Item(KindOf[b], id)
                 IN /\ calls' = Append(calls, Call(GenerateOp[b], arg, "Ok", impl_item, NoError))
                    /\ output' = PushItem(output, impl_item)
                    /\ todo' = todo \ {ident}
                    /\ UNCHANGED <<pc, result>>
    /\ UNCHANGED <<trait_items, impl_block, bucket, items, impl_items,
                   once_slot, once_log>>

GenerateNextBucket ==
    /\ pc = "generate"
    /\ todo = {}
    /\ bucket < Len(GenerateOrder)
    /\ bucket' = bucket + 1
    /\ todo' = Keys(items[GenerateOrder[bucket + 1]])
    /\ UNCHANGED <<trait_items, impl_block, pc, items, impl_items, output,
                   calls, result, once_slot, once_log>>

(* Ok(output) *)
Return ==
    /\ pc = "generate"
    /\ todo = {}
    /\ bucket = Len(GenerateOrder)
    /\ result' = Ok(output)
    /\ output' = NoBlock
    /\ pc' = "done"
    /\ UNCHANGED <<trait_items, impl_block, bucket, todo, items, impl_items,
                   calls, once_slot, once_log>>

Next ==
    \/ Clone
    \/ SubtractItems
    \/ MinusStep
    \/ MinusNextBucket
    \/ MinusOk
    \/ GenerateStep
    \/ GenerateNextBucket
    \/ Return

Spec == Init /\ [][Next]_vars

----------------------------------------------------------------------------
(* Once::set, called up to MaxSets times on one slot.  once_log records     *)
(* each call: its arguments, the slot it found and what it returned.        *)

IdleInit ==
    /\ trait_items = <<>>
    /\ impl_block = NoBlock
    /\ pc = "idle"
    /\ bucket = 1
    /\ todo = {}
    /\ items = DefaultMap
    /\ impl_items = DefaultMap
    /\ output = NoBlock
    /\ calls = <<>>
    /\ result = Pending

InitOnce ==
    /\ IdleInit
    /\ once_slot = OnceDefault
    /\ once_log = <<>>

OnceSet(value, span) ==
    /\ Len(once_log) < MaxSets
    /\ once_slot' = OnceReplace(once_slot, span, value)
    /\ \E joined \in JoinResults(span, once_slot.span) :
         LET ret == IF once_slot.some
                    THEN Err(SynError(TwiceMessage, Span("args", UnwrapOr(joined, span))))
                    ELSE Ok(NoBlock)
         IN once_log' = Append(once_log,
                [value |-> value, span |-> span, before |-> once_slot, ret |-> ret])
    /\ UNCHANGED completeVars

NextOnce == \E value \in OnceValues, span \in Spans : OnceSet(value, span)

SpecOnce == InitOnce /\ [][NextOnce]_vars

----------------------------------------------------------------------------
(* Vocabulary of the properties: the inputs read as the specification      *)
(* reads them, independently of the indexes the run builds.                 *)

Range(f) == {f[k] : k \in DOMAIN f}

Identity(item) == <<item.kind, item.ident>>

Indexed(its) == {i \in 1..Len(its) : its[i].kind \in Kinds}

Identities(its) == {Identity(its[i]) : i \in Indexed(its)}

(* the sequence holds an item of that kind and identifier *)
Declares(its, item) == \E j \in 1..Len(its) : its[j] = item

RefsOfKind(its, b) == {i \in 1..Len(its) : its[i].kind = KindOf[b]}

(* impl items the trait does not declare (for their kind) *)
UnknownImpl ==
    {i \in Indexed(impl_block.items) :
        ~Declares(trait_items, impl_block.items[i])}

(* trait items without an impl item of their kind and identifier *)
UnimplementedRefs(b) ==
    {i \in RefsOfKind(trait_items, b) :
        ~Declares(impl_block.items, trait_items[i])}

AllUnimplemented == UNION {UnimplementedRefs(b) : b \in Buckets}

IsLast(its, i) == \A j \in 1..Len(its) : its[j] = its[i] => j <= i

(* of these, the last declaration of each (kind, identifier) *)
ResidualRefs(b) == {i \in UnimplementedRefs(b) : IsLast(trait_items, i)}

AllResidual == UNION {ResidualRefs(b) : b \in Buckets}

FullyImplemented == UnknownImpl = {} /\ AllUnimplemented = {}

NoDuplicateIdentity(its) ==
    \A i \in Indexed(its) : \A j \in Indexed(its) :
        i # j => Identity(its[i]) # Identity(its[j])

KindRank == [Const |-> 1, Method |-> 2, Type |-> 3, Other |-> 0]

OpRank == [generate_const |-> 1, generate_method |-> 2, generate_type |-> 3]

CallItems == [i \in 1..Len(calls) |-> calls[i].item]

CallArgs == {calls[i].arg : i \in 1..Len(calls)}

Succeeded == result.tag = "Ok"

Failed == result.tag = "Err"

Done == pc = "done"

(* `items` holds what subtract_items returned *)
Subtracted == pc = "generate" \/ Succeeded

IsMatchError(e) == e.message \in MatchMessages /\ e.span.node = "impl_item"

(* the index holds, per kind, one entry per identifier of the sequence,     *)
(* referring to its last occurrence                                         *)
IsLastIndex(map, its) ==
    \A b \in Buckets :
        /\ Keys(map[b]) = {its[i].ident : i \in RefsOfKind(its, b)}
        /\ \A k \in Keys(map[b]) :
              /\ its[map[b][k]] = Item(KindOf[b], k)
              /\ IsLast(its, map[b][k])

----------------------------------------------------------------------------
(* C1 as stated: when every impl item is declared by the trait, the         *)
(* residual is every trait item whose (kind, identifier) is not in the      *)
(* impl, and the completed block is the impl items plus one generated item  *)
(* per such trait item, with no (kind, identifier) twice.                   *)
C1_Original ==
    (pc \in {"generate", "done"} /\ UnknownImpl = {}) =>
        /\ Subtracted => \A b \in Buckets : Range(items[b]) = UnimplementedRefs(b)
        /\ Succeeded =>
              /\ result.block.items = impl_block.items \o CallItems
              /\ CallArgs = AllUnimplemented
              /\ Len(calls) = Cardinality(AllUnimplemented)
              /\ NoDuplicateIdentity(result.block.items)

(* C1: when every impl item is declared by the trait, subtraction succeeds  *)
(* and the residual holds, per kind, exactly the last declaration of each   *)
(* (kind, identifier) of the trait that the impl lacks; the completed block *)
(* is the impl items followed by one generated item per residual entry;     *)
(* and no (kind, identifier) occurs twice in it if none does in the impl    *)
(* block and the generator named each item after the trait item it got.     *)
C1_Completeness ==
    (pc \in {"generate", "done"} /\ UnknownImpl = {}) =>
        /\ Done => (Succeeded \/ result.error \in GenErrors)
        /\ Subtracted =>
              \A b \in Buckets :
                  /\ Range(items[b]) = ResidualRefs(b)
                  /\ \A k \in Keys(items[b]) : trait_items[items[b][k]].ident = k
        /\ Succeeded =>
              /\ result.block.items = impl_block.items \o CallItems
              /\ CallArgs = AllResidual
              /\ Len(calls) = Cardinality(AllResidual)
              /\ \A i \in 1..Len(calls) :
                    calls[i].item.kind = trait_items[calls[i].arg].kind
              /\ (/\ NoDuplicateIdentity(impl_block.items)
                  /\ \A i \in 1..Len(calls) :
                        calls[i].item.ident = trait_items[calls[i].arg].ident)
                 => NoDuplicateIdentity(result.block.items)

C1_Witness ==
    /\ Succeeded
    /\ UnknownImpl = {}
    /\ Indexed(impl_block.items) # {}
    /\ Len(calls) >= 1
    /\ NoDuplicateIdentity(result.block.items)

(* the error's message names the item's kind and identifier *)
ErrorNames(e, item) ==
    /\ Len(e.message) = 5
    /\ e.message[2] = KindWord[BucketOfKind[item.kind]]
    /\ e.message[4] = item.ident

(* C2: an impl item the trait does not declare (for its kind) makes the run *)
(* fail with a match error that names the kind and the identifier of such   *)
(* an item.                                                                 *)
C2_Claim ==
    (Done /\ UnknownImpl # {}) =>
        /\ Failed
        /\ \E i \in UnknownImpl : ErrorNames(result.error, impl_block.items[i])

(* C3: a failing generate_* call is the last call of the run, and complete  *)
(* returns exactly its error and no block.                                  *)
C3_GeneratorFailure ==
    \A i \in 1..Len(calls) :
        calls[i].tag = "Err" =>
            /\ i = Len(calls)
            /\ Done
            /\ result = Err(calls[i].error)
            /\ result.block = NoBlock

C3_Witness ==
    /\ Done
    /\ Len(calls) >= 2
    /\ calls[Len(calls)].tag = "Err"
    /\ calls[1].tag = "Ok"

(* C4: when the impl implements every trait item and nothing else, no       *)
(* generate_* call is ever made and the returned item list is the impl's.   *)
C4_NoOp ==
    /\ calls # <<>> => ~FullyImplemented
    /\ (Done /\ FullyImplemented) =>
          (Succeeded /\ result.block.items = impl_block.items)

C4_Witness ==
    /\ Done
    /\ FullyImplemented
    /\ Succeeded
    /\ Cardinality(Identities(trait_items)) >= 2

(* the trait declares constant x and no method x, the impl has method x *)
KindIsolationCase(x) ==
    /\ Item("Const", x) \in Range(trait_items)
    /\ Item("Method", x) \notin Range(trait_items)
    /\ Item("Method", x) \in Range(impl_block.items)

(* C5 as stated: with trait constant x, no trait method x and impl method   *)
(* x, the run fails with the method-kind error reported at method x.        *)
C5_Original ==
    \A x \in Idents :
        (Done /\ KindIsolationCase(x)) =>
            /\ Failed
            /\ result.error.message = MatchError("methods", 0).message
            /\ result.error.span.node = "impl_item"
            /\ impl_block.items[result.error.span.index] = Item("Method", x)

(* C5: matching is per kind: a trait item stays in the index unless an impl *)
(* item of its own kind and identifier exists, and an impl item without a   *)
(* trait item of its own kind makes the run fail.  With trait constant x,   *)
(* no trait method x and impl method x, the run fails with a match error    *)
(* reported at an impl item the trait does not declare for its kind; it is  *)
(* the method-kind error at method x when that is the only such item.       *)
C5_KindIsolation ==
    /\ pc \in {"minus", "generate"} =>
          \A b \in Buckets : \A i \in UnimplementedRefs(b) :
              trait_items[i].ident \in Keys(items[b])
    /\ \A x \in Idents :
          (Done /\ KindIsolationCase(x)) =>
              /\ Failed
              /\ IsMatchError(result.error)
              /\ result.error.span.index \in UnknownImpl
              /\ (\A i \in UnknownImpl : impl_block.items[i] = Item("Method", x))
                 => /\ result.error.message = MatchError("methods", 0).message
                    /\ impl_block.items[result.error.span.index] = Item("Method", x)

C5_Witness ==
    /\ Done
    /\ \E x \in Idents :
          /\ KindIsolationCase(x)
          /\ Item("Const", x) \notin Range(impl_block.items)
          /\ impl_block.items[result.error.span.index] = Item("Method", x)
    /\ result.error.message = MatchError("methods", 0).message

(* C6: in a successful run the generator was called exactly once for each   *)
(* residual item, with the operation of its kind, never for an implemented  *)
(* item, and in the order constants, methods, types.                        *)
C6_CallOrder ==
    Succeeded =>
        /\ \A r \in AllResidual :
              Cardinality({i \in 1..Len(calls) : calls[i].arg = r}) = 1
        /\ \A i \in 1..Len(calls) :
              /\ calls[i].arg \in AllResidual
              /\ calls[i].op = GenerateOp[BucketOfKind[trait_items[calls[i].arg].kind]]
              /\ calls[i].tag = "Ok"
        /\ \A i \in 1..Len(calls) : \A j \in 1..Len(calls) :
              i < j => OpRank[calls[i].op] <= OpRank[calls[j].op]

C6_Witness ==
    /\ Succeeded
    /\ Len(calls) = 2
    /\ calls[1].op = "generate_method"
    /\ calls[2].op = "generate_type"
    /\ trait_items[1].kind = "Type"

(* the shape of a returned block: metadata kept, impl items first, then the *)
(* generated items by kind                                                  *)
ReturnedShape ==
    Succeeded =>
        LET out == result.block.items
            n == Len(impl_block.items)
        IN /\ result.block.meta = impl_block.meta
           /\ Len(out) >= n
           /\ SubSeq(out, 1, n) = impl_block.items
           /\ \A i \in (n + 1)..Len(out) : \A j \in (n + 1)..Len(out) :
                 i < j => KindRank[out[i].kind] <= KindRank[out[j].kind]

(* C7: no step changes the trait item sequence or the impl block, and a     *)
(* returned block has the impl block's metadata and its items as a prefix,  *)
(* followed by generated constants, then methods, then types.               *)
C7_Frame ==
    /\ [][trait_items' = trait_items /\ impl_block' = impl_block]_vars
    /\ []ReturnedShape

C7_Witness ==
    /\ Succeeded
    /\ Len(impl_block.items) >= 1
    /\ Len(result.block.items) >= Len(impl_block.items) + 2
    /\ result.block.items[Len(result.block.items)].kind
         # result.block.items[Len(impl_block.items) + 1].kind

(* minus has not removed anything from the trait index yet *)
FreshTraitIndex ==
    pc = "minus" /\ bucket = 1 /\ todo = Keys(impl_items[MinusOrder[1]])

(* C8: a freshly built index holds one entry per (kind, identifier),        *)
(* referring to the last occurrence in its sequence; a residual identifier  *)
(* declared several times gets one generator call, for the last             *)
(* declaration.                                                             *)
C8_LastWins ==
    /\ FreshTraitIndex => IsLastIndex(items, trait_items)
    /\ pc \in {"minus", "generate", "done"} => IsLastIndex(impl_items, impl_block.items)
    /\ Succeeded =>
          \A r \in AllUnimplemented :
              LET same == {i \in 1..Len(calls) :
                             trait_items[calls[i].arg] = trait_items[r]}
              IN /\ Cardinality(same) = 1
                 /\ \A i \in same : IsLast(trait_items, calls[i].arg)

C8_Witness ==
    /\ Succeeded
    /\ \E i \in AllUnimplemented : \E j \in CallArgs :
          i < j /\ trait_items[i] = trait_items[j]

(* C9: an impl item the trait does not declare makes the run fail with a    *)
(* match error reported at such an item, before any generate_* call; the    *)
(* reported item is of the first kind, in the order constants, methods,     *)
(* types, that has such an item.                                            *)
C9_FailFast ==
    /\ calls # <<>> => UnknownImpl = {}
    /\ (Done /\ UnknownImpl # {}) =>
          /\ Failed
          /\ IsMatchError(result.error)
          /\ result.error.span.index \in UnknownImpl
          /\ LET at == impl_block.items[result.error.span.index]
             IN /\ result.error.message = MatchError(BucketOfKind[at.kind], 0).message
                /\ \A j \in UnknownImpl :
                      KindRank[at.kind] <= KindRank[impl_block.items[j].kind]

C9_Witness ==
    /\ Done
    /\ AllResidual # {}
    /\ \E i \in UnknownImpl : impl_block.items[i].kind = "Const"
    /\ \E i \in UnknownImpl : impl_block.items[i].kind = "Method"
    /\ impl_block.items[1].kind = "Method"

(* C10: of the set calls made on one slot, the first returns Ok and every   *)
(* later one the "Argument cannot be set twice" error; a call returns Ok    *)
(* exactly when it found the slot empty.                                    *)
C10_SetOnce ==
    \A i \in 1..Len(once_log) :
        LET call == once_log[i]
        IN /\ i = 1 => call.ret.tag = "Ok"
           /\ i > 1 => (call.ret.tag = "Err" /\ call.ret.error.message = TwiceMessage)
           /\ call.ret.tag = "Ok" <=> ~call.before.some

C10_Witness ==
    /\ Len(once_log) >= 3
    /\ once_log[3].ret.tag = "Err"
    /\ once_log[3].value # once_log[1].value

====
